---- MODULE Spec2Model ----
(***************************************************************************)
(* A model of the ctypes layer of RustPython (vm/src/stdlib/ctypes):       *)
(* the type-code tables, the shared-library cache, symbol lookup, the      *)
(* legacy path-keyed function cache, the CFuncPtr call dispatcher, and     *)
(* the Array type with its raw and value properties.                       *)
(*                                                                         *)
(* Platform: LP64 Linux (c_int = 32 bit, c_long = 64 bit, WideChar = u32). *)
(* A Rust panic (unwrap on Err, unreachable!) is modelled as the terminal  *)
(* state panicked = TRUE: the interpreter does not catch panics.           *)
(***************************************************************************)
EXTENDS Integers, Sequences, FiniteSets, TLC

VARIABLES
    slibs,        \* heap of SharedLibrary objects, by address
    libraries,    \* LIBCACHE: ExternalLibs.libraries, key -> object address
    held,         \* per thread: the library the thread's latest open returned
    ef_libraries, \* FUNCTIONS: ExternalFunctions.libraries, path -> Arc<Library>
    ef_functions, \* FUNCTIONS: ExternalFunctions.functions, key -> FunctionProxy
    fptr,         \* the PyCFuncPtr object under test (or NoFn)
    lookup,       \* latest result of each type-code table
    lookups,      \* the (library, name) pairs Library::get has found so far
    arr,          \* the PyCArray object under test (or NoArr) and its _buffer
    last,         \* what the most recent operation did and returned
    panicked,     \* a Rust panic has unwound the interpreter
    pc            \* where a thread stands inside a handler it has not finished

vars == <<slibs, libraries, held, ef_libraries, ef_functions, fptr, lookup, lookups, arr, last,
          panicked, pc>>

-----------------------------------------------------------------------------
(* Bounds of the model *)

MaxAddr == 2      \* heap addresses available to SharedLibrary objects
MaxArgs == 2      \* longest argument list / argtypes list
MaxLen == 3       \* longest array a class declares, besides the huge lengths
MaxBytes == 8     \* largest array buffer laid out, in bytes
MaxSrc == 3       \* longest bytes or text value written to an array
UsizeBits == 16   \* width given to usize: its arithmetic is modulo 2^UsizeBits

Addr == 1..MaxAddr
Threads == {1, 2}   \* two interpreter threads
NoLib == 0

SeqsUpTo(S, n) == UNION {[1..k -> S] : k \in 0..n}

-----------------------------------------------------------------------------
(* Type codes *)

\* common.rs: SIMPLE_TYPE_CHARS = "cbBhHiIlLdfuzZqQP?g"
SIMPLE_TYPE_CHARS ==
    {"c", "b", "B", "h", "H", "i", "I", "l", "L", "d", "f", "u", "z", "Z",
     "q", "Q", "P", "?", "g"}

\* strings a caller can hand to a lookup: the alphabet and some others
TypeStrings == SIMPLE_TYPE_CHARS \cup {"x", "O", "", "ii"}

Unreachable == "unreachable!"   \* the panic of a match that fell through

\* ffi_type!(name): middle::Type::name().as_raw_ptr(), the address of the
\* libffi static the Rust type aliases on this platform
ffi_type(name) ==
    CASE name = "c_schar"     -> "ffi_type_sint8"
      [] name = "i8"          -> "ffi_type_sint8"
      [] name = "c_uchar"     -> "ffi_type_uint8"
      [] name = "c_short"     -> "ffi_type_sint16"
      [] name = "c_ushort"    -> "ffi_type_uint16"
      [] name = "u16"         -> "ffi_type_uint16"
      [] name = "c_int"       -> "ffi_type_sint32"
      [] name = "c_uint"      -> "ffi_type_uint32"
      [] name = "c_long"      -> "ffi_type_sint64"
      [] name = "c_longlong"  -> "ffi_type_sint64"
      [] name = "c_ulong"     -> "ffi_type_uint64"
      [] name = "c_ulonglong" -> "ffi_type_uint64"
      [] name = "f32"         -> "ffi_type_float"
      [] name = "f64"         -> "ffi_type_double"
      [] name = "longdouble"  -> "ffi_type_longdouble"
      [] name = "pointer"     -> "ffi_type_pointer"
      [] name = "void"        -> "ffi_type_void"

\* function.rs: str_to_type; a code outside the table hits unreachable!()
str_to_type(ty) ==
    CASE ty = "c" -> ffi_type("c_schar")
      [] ty = "u" -> ffi_type("c_int")
      [] ty = "b" -> ffi_type("i8")
      [] ty = "h" -> ffi_type("c_short")
      [] ty = "H" -> ffi_type("c_ushort")
      [] ty = "i" -> ffi_type("c_int")
      [] ty = "I" -> ffi_type("c_uint")
      [] ty = "l" -> ffi_type("c_long")
      [] ty = "q" -> ffi_type("c_longlong")
      [] ty = "L" -> ffi_type("c_ulong")
      [] ty = "Q" -> ffi_type("c_ulonglong")
      [] ty = "f" -> ffi_type("f32")
      [] ty = "d" -> ffi_type("f64")
      [] ty = "g" -> ffi_type("longdouble")
      [] ty \in {"?", "B"} -> ffi_type("c_uchar")
      [] ty \in {"z", "Z"} -> ffi_type("pointer")
      [] ty = "P" -> ffi_type("void")
      [] OTHER -> Unreachable

\* common.rs: convert_type; the last arm is "P" | _
convert_type(ty) ==
    CASE ty = "?" -> ffi_type("c_uchar")
      [] ty = "c" -> ffi_type("c_schar")
      [] ty = "u" -> ffi_type("c_int")
      [] ty = "b" -> ffi_type("i8")
      [] ty = "B" -> ffi_type("c_uchar")
      [] ty = "h" -> ffi_type("c_ushort")
      [] ty = "H" -> ffi_type("u16")
      [] ty = "i" -> ffi_type("c_int")
      [] ty = "I" -> ffi_type("c_uint")
      [] ty = "l" -> ffi_type("c_long")
      [] ty = "q" -> ffi_type("c_longlong")
      [] ty = "L" -> ffi_type("c_ulong")
      [] ty = "Q" -> ffi_type("c_ulonglong")
      [] ty = "f" -> ffi_type("f32")
      [] ty = "d" -> ffi_type("f64")
      [] ty = "g" -> ffi_type("longdouble")
      [] ty = "z" -> ffi_type("pointer")
      [] ty = "Z" -> ffi_type("pointer")
      [] OTHER -> ffi_type("void")

\* mem::size_of::<T>() of the Rust types get_size names
size_of(name) ==
    CASE name \in {"c_schar", "c_uchar", "c_void"} -> 1
      [] name \in {"c_short", "c_ushort"} -> 2
      [] name \in {"c_int", "c_uint", "c_float", "WideChar"} -> 4
      [] name \in {"c_long", "c_ulong", "c_longlong", "c_ulonglong", "c_double",
                   "usize"} -> 8

\* the Rust type get_size measures for a code; a code outside the table hits
\* unreachable!()
os_match_type(ty) ==
    CASE ty = "u" -> "WideChar"
      [] ty \in {"c", "b"} -> "c_schar"
      [] ty = "h" -> "c_short"
      [] ty = "H" -> "c_ushort"
      [] ty = "i" -> "c_int"
      [] ty = "I" -> "c_uint"
      [] ty = "l" -> "c_long"
      [] ty = "q" -> "c_longlong"
      [] ty = "L" -> "c_ulong"
      [] ty = "Q" -> "c_ulonglong"
      [] ty = "f" -> "c_float"
      [] ty \in {"d", "g"} -> "c_double"
      [] ty \in {"?", "B"} -> "c_uchar"
      [] ty \in {"P", "z", "Z"} -> "c_void"
      [] OTHER -> Unreachable

\* array.rs: get_size, in bytes (defined where os_match_type has an arm)
get_size(ty) == size_of(os_match_type(ty))

\* the latest call of one lookup: its input, how it ended ("none": not called
\* yet, "ok", "panic"), and the type or size it returned
NoLookup == [ty |-> "", st |-> "none", type |-> "", size |-> 0]

-----------------------------------------------------------------------------
(* The environment: library files and the symbols they export *)

Paths == {"a", "a_b"}
Names == {"c", "nosym"}

\* the symbols the library file at a path exports
Exports(path) == {"c"}

-----------------------------------------------------------------------------
(* shared_lib.rs: SharedLibrary and the LIBCACHE *)

NoObj == [alloc |-> FALSE, path_name |-> "", lib |-> "None"]

NoPtr == [lib |-> NoLib, name |-> ""]
NoCif == [prepared |-> FALSE, nargs |-> 0, rtype |-> "", arg_types |-> <<>>]
NoNative == [ptr |-> NoPtr, cif |-> NoCif, cells |-> <<>>, libOpen |-> FALSE]

NoProxy == [_name |-> "", _lib |-> NoLib]

\* no value was produced
NoBox == [kind |-> "none", width |-> 0]

\* the _length_ attribute of an array class: absent, not an int, or an int
NoLen == [kind |-> "missing", n |-> 0]

\* the text most recently written to an array through `value` (none yet)
NoText == [set |-> FALSE, units |-> <<>>]

\* what the most recent operation did; every operation fills the fields it has
Last0 ==
    [op |-> "none", path |-> "", lib |-> NoLib, name |-> "",
     res |-> "none", ret |-> NoLib,
     nargs |-> 0,         \* how many arguments an invoke was given
     ntypes |-> 0,        \* how many argument types were declared when it began
     failed |-> 0,        \* position of the argument whose marshaling failed
     called |-> FALSE,    \* ffi_call (the native call) was performed
     native |-> NoNative, \* what that native call was given
     loaded |-> FALSE,    \* Library::new was called
     hit |-> NoLib,       \* the open instance of the path cached before the call
     wasOpen |-> FALSE,   \* the library was open when the operation began
     lookedUp |-> FALSE,  \* Library::get (the native symbol lookup) was called
     again |-> FALSE,     \* Library::get had found this (library, name) before
     rebuilt |-> FALSE,   \* prep_cif replaced a call interface of other types
     released |-> FALSE,  \* a Library was dropped (the native handle released)
     proxy |-> NoProxy,   \* the FunctionProxy get_or_insert_fn returned
     boxed |-> NoBox,     \* the Python value an invoke boxed its result into
     len |-> NoLen,       \* the _length_ an array construction was given
     code |-> "",         \* the element code an array construction was given
     made |-> FALSE,      \* the construction created an array
     before |-> <<>>,     \* the buffer's bytes when an array operation began
     kind |-> "",         \* the kind of value written ("bytes" or "str")
     src |-> <<>>,        \* the units of the value written
     text |-> NoText,     \* what `value` had last stored when a read began
     out |-> <<>>,        \* the units a read returned
     vals |-> <<>>,       \* the `value` of each argument an invoke was given
     stale |-> FALSE,     \* Library::get ran through a reference close had emptied
     decl |-> <<>>,       \* the type objects a declaration was given
     seen |-> <<>>]       \* what the native call read through each cell

\* a thread between two steps of a handler: an invoke that has passed the
\* arity check and collected its values but not yet locked _f; a set_argtypes
\* that has stored _argtypes_ but not yet locked _f; a get_sym that holds the
\* reference to the Library but has not yet called Library::get
NoPend == [at |-> "idle", vals |-> <<>>, ntypes |-> 0]
NoStore == [at |-> "idle", c_args |-> <<>>]
NoRef == [at |-> "idle", lib |-> NoLib, name |-> ""]
Idle == [call |-> NoPend, set |-> NoStore, sym |-> NoRef]

\* SharedLibrary::new after a successful Library::new
NewSharedLibrary(name) == [alloc |-> TRUE, path_name |-> name, lib |-> "Some"]

\* SharedLibrary::get_pointer: the address of the Library inside the object
\* at address a, or null once lib is None
get_pointer(heap, a) == IF heap[a].lib = "Some" THEN a ELSE 0

\* SharedLibrary::is_closed
is_closed(heap, a) == heap[a].lib = "None"

\* ExternalLibs::get_lib
get_lib(key) == libraries[key]

\* addresses no live SharedLibrary object occupies
FreeAddr == {a \in Addr : ~slibs[a].alloc}

\* the open cached instances whose path is p
OpenCached(p) ==
    {a \in Addr : /\ \E k \in Addr : libraries[k] = a
                  /\ slibs[a].alloc /\ slibs[a].path_name = p
                  /\ slibs[a].lib = "Some"}

\* whether get_or_insert_lib stores nlib under key: the key is absent, or the
\* entry under it is closed
InsertsLib(heap, key) ==
    \/ libraries[key] = NoLib
    \/ is_closed(heap, libraries[key])

\* ExternalLibs::get_or_insert_lib, under the write lock of LIBCACHE (&mut self);
\* arena is the part of the heap the allocator places the new object in
GetOrInsertLib(t, library_path, arena) ==
    /\ ~panicked
    /\ \E ok \in BOOLEAN :
        IF ~ok
        THEN \* SharedLibrary::new(library_path)? returns the loader's error
             /\ last' = [Last0 EXCEPT !.op = "get_or_insert_lib",
                                      !.path = library_path, !.res = "LoadError",
                                      !.loaded = TRUE,
                                      !.hit = IF OpenCached(library_path) = {} THEN NoLib
                                              ELSE CHOOSE a \in OpenCached(library_path) : TRUE]
             /\ held' = [held EXCEPT ![t] = NoLib]
             /\ UNCHANGED <<slibs, libraries>>
        ELSE \E a \in FreeAddr \cap arena :
             LET heap1 == [slibs EXCEPT ![a] = NewSharedLibrary(library_path)]
                 key == get_pointer(heap1, a)
                 old == libraries[key]
                 ins == InsertsLib(heap1, key)
                 \* a replaced entry is dropped; an nlib not stored is dropped
                 heap2 == IF ins
                          THEN IF old # NoLib /\ old # a
                               THEN [heap1 EXCEPT ![old] = NoObj] ELSE heap1
                          ELSE slibs
                 libs2 == IF ins THEN [libraries EXCEPT ![key] = a] ELSE libraries
             IN /\ slibs' = heap2
                /\ libraries' = libs2
                /\ held' = [held EXCEPT ![t] = libs2[key]]
                /\ last' = [Last0 EXCEPT !.op = "get_or_insert_lib",
                                         !.path = library_path, !.res = "ok",
                                         !.ret = libs2[key], !.loaded = TRUE,
                                         !.hit = IF OpenCached(library_path) = {} THEN NoLib
                                                 ELSE CHOOSE c \in OpenCached(library_path) : TRUE]
    /\ UNCHANGED <<pc, ef_libraries, ef_functions, fptr, lookup, lookups, arr, panicked>>

\* a close that releases the handle whether or not one is held, and leaves a
\* closed library open
close_Toggle(self) ==
    [obj |-> [self EXCEPT !.lib = IF self.lib = "Some" THEN "None" ELSE "Some"],
     released |-> TRUE]

\* SharedLibrary::close on the object self: take the Library out, store None,
\* drop what was taken (dropping a Library releases the native handle)
close(self) ==
    [obj |-> [self EXCEPT !.lib = "None"], released |-> (self.lib = "Some")]

\* a caller closing a SharedLibrary it holds
Close(t, a) ==
    /\ ~panicked
    /\ slibs[a].alloc
    /\ LET old == slibs[a].lib
       IN /\ slibs' = [slibs EXCEPT ![a] = close(slibs[a]).obj]
          /\ last' = [Last0 EXCEPT !.op = "close", !.lib = a,
                                   !.path = slibs[a].path_name, !.res = "ok",
                                   !.wasOpen = (old = "Some"),
                                   !.released = close(slibs[a]).released]
    /\ UNCHANGED <<pc, libraries, held, ef_libraries, ef_functions, fptr, lookup, lookups, arr, panicked>>

\* get_sym without its check that the library is still loaded
get_sym_Unchecked(self, name) ==
    [res |-> IF name \in Exports(self.path_name) THEN "ok" ELSE "SymbolNotFound",
     lookedUp |-> TRUE]

\* SharedLibrary::get_sym on the object self: the result, and whether the
\* library's native lookup ran
get_sym(self, name) ==
    IF self.lib = "Some"
    THEN [res |-> IF name \in Exports(self.path_name) THEN "ok" ELSE "SymbolNotFound",
          lookedUp |-> TRUE]
    ELSE [res |-> "LibraryClosed", lookedUp |-> FALSE]

\* the log of native lookups after a resolve of (a, name) that ended as r
Found(log, a, name, r) ==
    IF r.lookedUp /\ r.res = "ok" THEN log \cup {<<a, name>>} ELSE log

\* a caller resolving a symbol on a SharedLibrary it holds
GetSym(t, a, name) ==
    /\ ~panicked
    /\ slibs[a].alloc
    /\ LET r == get_sym(slibs[a], name)
       IN last' = [Last0 EXCEPT !.op = "get_sym", !.lib = a,
                                !.path = slibs[a].path_name, !.name = name,
                                !.res = r.res, !.lookedUp = r.lookedUp,
                                !.wasOpen = (slibs[a].lib = "Some"),
                                !.again = (<<a, name>> \in lookups)]
          /\ lookups' = Found(lookups, a, name, r)
    /\ UNCHANGED <<pc, slibs, libraries, held, ef_libraries, ef_functions, fptr, lookup, arr, panicked>>

\* get_sym, first step: the reference into the cell, taken through as_ptr
\* without the cell's synchronization; an empty cell ends the lookup
GetSymRef(a, name) ==
    /\ ~panicked
    /\ slibs[a].alloc
    /\ pc.sym.at = "idle"
    /\ IF slibs[a].lib = "Some"
       THEN /\ pc' = [pc EXCEPT !.sym = [at |-> "ref", lib |-> a, name |-> name]]
            /\ UNCHANGED last
       ELSE /\ last' = [Last0 EXCEPT !.op = "get_sym", !.lib = a,
                                     !.path = slibs[a].path_name, !.name = name,
                                     !.res = "LibraryClosed"]
            /\ UNCHANGED pc
    /\ UNCHANGED <<slibs, libraries, held, ef_libraries, ef_functions, fptr, lookup, lookups,
                   arr, panicked>>

\* what Library::get does through a reference whose Library close has taken
\* out of the cell and dropped: any answer, or a crash of the process
StaleLookup == {"ok", "SymbolNotFound", "crash"}

\* get_sym, second step: inner.get(name) through the reference taken before
GetSymGet ==
    /\ ~panicked
    /\ pc.sym.at = "ref"
    /\ LET a == pc.sym.lib
           name == pc.sym.name
           base == [Last0 EXCEPT !.op = "get_sym", !.lib = a,
                                 !.path = slibs[a].path_name, !.name = name,
                                 !.lookedUp = TRUE, !.wasOpen = TRUE,
                                 !.again = (<<a, name>> \in lookups)]
       IN IF slibs[a].lib = "Some"
          THEN LET r == get_sym(slibs[a], name)
               IN /\ last' = [base EXCEPT !.res = r.res]
                  /\ lookups' = Found(lookups, a, name, r)
                  /\ UNCHANGED panicked
          ELSE \E out \in StaleLookup :
                  /\ last' = [base EXCEPT !.res = out, !.stale = TRUE]
                  /\ panicked' = (out = "crash")
                  /\ UNCHANGED lookups
    /\ pc' = [pc EXCEPT !.sym = NoRef]
    /\ UNCHANGED <<slibs, libraries, held, ef_libraries, ef_functions, fptr, lookup, arr>>

\* ctypes.rs: _ctypes.dlopen. Library::new(..).expect(..) panics when the
\* library cannot be loaded; a loaded library is returned in a new object and
\* no cache is involved
Dlopen(lib_path) ==
    /\ ~panicked
    /\ \E ok \in BOOLEAN :
        /\ last' = [Last0 EXCEPT !.op = "dlopen", !.path = lib_path, !.loaded = TRUE,
                                 !.res = IF ok THEN "ok" ELSE "panic"]
        /\ panicked' = ~ok
    /\ UNCHANGED <<pc, slibs, libraries, held, ef_libraries, ef_functions, fptr, lookup,
                   lookups, arr>>

-----------------------------------------------------------------------------
(* common.rs: ExternalFunctions, the path-keyed caches behind FUNCTIONS *)

\* Arc<Library> addresses no cached library occupies
FreeArc == {a \in Addr : \A p \in Paths : ef_libraries[p] # a}

\* ExternalFunctions::get_or_insert_lib: Library::new runs before the entry is
\* looked up (the argument of or_insert is evaluated first), and its error is
\* returned even when the path is cached
EFGetOrInsertLib(library_path) ==
    /\ ~panicked
    /\ \E ok \in BOOLEAN :
        IF ~ok
        THEN /\ last' = [Last0 EXCEPT !.op = "ef_get_or_insert_lib",
                                      !.path = library_path, !.res = "LoadError",
                                      !.loaded = TRUE, !.hit = ef_libraries[library_path]]
             /\ UNCHANGED ef_libraries
        ELSE \E a \in (IF ef_libraries[library_path] = NoLib THEN FreeArc
                       ELSE {ef_libraries[library_path]}) :
             /\ ef_libraries' = [ef_libraries EXCEPT ![library_path] = a]
             /\ last' = [Last0 EXCEPT !.op = "ef_get_or_insert_lib",
                                      !.path = library_path, !.res = "ok", !.ret = a,
                                      !.loaded = TRUE, !.hit = ef_libraries[library_path],
                                      !.released = (ef_libraries[library_path] # NoLib)]
    /\ UNCHANGED <<pc, slibs, libraries, held, ef_functions, fptr, lookup, lookups, arr, panicked>>

\* the key of a function entry: format!("{}_{}", library_path, func_name)
FnKey(library_path, func_name) == library_path \o "_" \o func_name

\* the entry stored under a key, or NoProxy
FnEntry(key) ==
    IF \E f \in ef_functions : f._name = key
    THEN CHOOSE f \in ef_functions : f._name = key
    ELSE NoProxy

\* ExternalFunctions::get_or_insert_fn: the entry under the key, inserted with
\* the library passed when the key is new
EFGetOrInsertFn(func_name, library_path, library) ==
    /\ ~panicked
    /\ library # NoLib
    /\ LET f_name == FnKey(library_path, func_name)
           fresh == [_name |-> f_name, _lib |-> library]
           entry == IF FnEntry(f_name) = NoProxy THEN fresh ELSE FnEntry(f_name)
       IN /\ ef_functions' = ef_functions \cup {entry}
          /\ last' = [Last0 EXCEPT !.op = "ef_get_or_insert_fn", !.path = library_path,
                                   !.name = func_name, !.lib = library, !.res = "ok",
                                   !.again = (FnEntry(f_name) # NoProxy),
                                   !.proxy = entry]
    /\ UNCHANGED <<pc, slibs, libraries, held, ef_libraries, fptr, lookup, lookups, arr, panicked>>

-----------------------------------------------------------------------------
(* function.rs: Function, PyCFuncPtr and the call dispatcher *)

\* Python values an argument object can carry in its `value` attribute
IntV(n) == [t |-> "int", n |-> n]
StrV == [t |-> "str", n |-> 0]

\* Python ints at the edges of the native ranges, beyond what the model's own
\* integers hold: 2^k - 1 (less), 2^k, -2^k, and -2^k - 1 (neg and less)
BigV(neg, k, less) == [t |-> "big", n |-> 0, neg |-> neg, k |-> k, less |-> less]
EdgeBits == {7, 8, 15, 16, 31, 32, 63, 64}
BigVals == {BigV(neg, k, less) : neg \in BOOLEAN, k \in EdgeBits, less \in BOOLEAN}
Vals == {IntV(100), StrV}

\* objects passed as call arguments: with a `value` attribute or without one
ArgObjs == {[hasValue |-> TRUE, value |-> v] : v \in Vals}
           \cup {[hasValue |-> FALSE, value |-> IntV(0)]}

\* type codes used in declarations ("x" is outside the alphabet)
ArgCodes == {"b", "z", "x"}
RetCodes == {"b", "P", "x"}

\* objects offered as items of _argtypes_ or as _restype_: _SimpleCData
\* classes carry a _type_ code; other objects may carry one or not
TypeObj(simple, has, code) == [simple |-> simple, has_type |-> has, _type_ |-> code]
ArgItems == {TypeObj(TRUE, TRUE, c) : c \in ArgCodes}
RetItems == {TypeObj(TRUE, TRUE, c) : c \in RetCodes}
            \cup {TypeObj(FALSE, TRUE, "b"), TypeObj(FALSE, FALSE, "")}

\* <T>::try_from_object for the integer types: the value range of the
\* destination, by libffi type. The model checker's integers are 32 bits wide:
\* a limit beyond them is written as the nearest one they hold, which every
\* value of Vals respects.
IntRange(ty) ==
    CASE ty = "ffi_type_sint8"  -> [lo |-> 0 - 128, hi |-> 127]
      [] ty = "ffi_type_uint8"  -> [lo |-> 0, hi |-> 255]
      [] ty = "ffi_type_sint16" -> [lo |-> 0 - 32768, hi |-> 32767]
      [] ty = "ffi_type_uint16" -> [lo |-> 0, hi |-> 65535]
      [] ty = "ffi_type_sint32" -> [lo |-> (0 - 2147483647) - 1, hi |-> 2147483647]
      [] ty = "ffi_type_uint32" -> [lo |-> 0, hi |-> 2147483647]
      [] ty = "ffi_type_sint64" -> [lo |-> (0 - 2147483647) - 1, hi |-> 2147483647]
      [] ty = "ffi_type_uint64" -> [lo |-> 0, hi |-> 2147483647]
      [] ty = "ffi_type_pointer" -> [lo |-> 0, hi |-> 2147483647]

IntTypes ==
    {"ffi_type_sint8", "ffi_type_uint8", "ffi_type_sint16", "ffi_type_uint16",
     "ffi_type_sint32", "ffi_type_uint32", "ffi_type_sint64", "ffi_type_uint64"}
FloatTypes == {"ffi_type_float", "ffi_type_double", "ffi_type_longdouble"}

\* the width in bits and the signedness of the Rust integer type py_to_ffi
\* converts to for a libffi type (usize for the pointer arm)
IntBits(ty) ==
    CASE ty \in {"ffi_type_sint8", "ffi_type_uint8"} -> 8
      [] ty \in {"ffi_type_sint16", "ffi_type_uint16"} -> 16
      [] ty \in {"ffi_type_sint32", "ffi_type_uint32"} -> 32
      [] ty \in {"ffi_type_sint64", "ffi_type_uint64", "ffi_type_pointer"} -> 64
IntSigned(ty) ==
    ty \in {"ffi_type_sint8", "ffi_type_sint16", "ffi_type_sint32", "ffi_type_sint64"}

\* whether an edge value lies in the range of the destination integer type
FitsBig(ty, v) ==
    IF IntSigned(ty)
    THEN IF v.less = v.neg THEN v.k < IntBits(ty) - 1 ELSE v.k <= IntBits(ty) - 1
    ELSE ~v.neg /\ (IF v.less THEN v.k <= IntBits(ty) ELSE v.k < IntBits(ty))

\* a conversion that takes every int, whatever the destination holds
Converts_Unchecked(ty, v) == v.t \in {"int", "big"}

\* whether try_from_object of the destination type accepts the value
Converts(ty, v) ==
    IF ty \in FloatTypes THEN v.t \in {"int", "big"}
    ELSE IF v.t = "big" THEN FitsBig(ty, v)
    ELSE v.t = "int" /\ IntRange(ty).lo <= v.n /\ v.n <= IntRange(ty).hi

\* py_to_ffi: the cell for one argument. The scalar arms return the address
\* of a temporary that is dead when py_to_ffi returns ("temp"); the pointer
\* arm unwraps the conversion; the void arm returns null.
py_to_ffi(ty, v) ==
    CASE ty \in IntTypes \cup FloatTypes ->
            IF Converts(ty, v)
            THEN [res |-> "ok", cell |-> [kind |-> "temp", ty |-> ty, v |-> v]]
            ELSE [res |-> "err", cell |-> [kind |-> "none", ty |-> ty, v |-> IntV(0)]]
      [] ty = "ffi_type_pointer" ->
            IF Converts(ty, v)
            THEN [res |-> "ok", cell |-> [kind |-> "addr", ty |-> ty, v |-> v]]
            ELSE [res |-> "panic", cell |-> [kind |-> "none", ty |-> ty, v |-> IntV(0)]]
      [] ty = "ffi_type_void" ->
            [res |-> "ok", cell |-> [kind |-> "null", ty |-> ty, v |-> IntV(0)]]

\* Function::new
FunctionNew(fn_ptr, arguments, return_type) ==
    [pointer |-> fn_ptr,
     cif |-> NoCif,
     arguments |-> [i \in 1..Len(arguments) |-> str_to_type(arguments[i])],
     return_type |-> str_to_type(return_type)]

\* the first position of a declared code str_to_type has no arm for (0: none)
FirstUnknown(codes) ==
    IF \E i \in 1..Len(codes) : str_to_type(codes[i]) = Unreachable
    THEN CHOOSE i \in 1..Len(codes) :
            /\ str_to_type(codes[i]) = Unreachable
            /\ \A j \in 1..(i - 1) : str_to_type(codes[j]) # Unreachable
    ELSE 0

\* Function::set_args: clear, then extend with the converted codes; a panic
\* in str_to_type leaves the codes before it in place
set_args(f, args) ==
    LET bad == FirstUnknown(args)
        n == IF bad = 0 THEN Len(args) ELSE bad - 1
    IN [f EXCEPT !.arguments = [i \in 1..n |-> str_to_type(args[i])]]

\* Function::set_ret
set_ret(f, ret) ==
    IF str_to_type(ret) = Unreachable THEN f
    ELSE [f EXCEPT !.return_type = str_to_type(ret)]

\* a call interface built once and kept across redeclarations
prep_cif_Cached(f) ==
    IF f.cif.prepared THEN f.cif
    ELSE [prepared |-> TRUE, nargs |-> Len(f.arguments), rtype |-> f.return_type,
          arg_types |-> f.arguments]

\* prep_cif(&mut self.cif, ABI, arguments.len(), return_type, arguments)
prep_cif(f) ==
    [prepared |-> TRUE, nargs |-> Len(f.arguments), rtype |-> f.return_type,
     arg_types |-> f.arguments]

\* dll.rs dlsym(handle, name): the cached library under the handle, then
\* get_sym on it
dlsym(handle, name) ==
    IF get_lib(handle) = NoLib THEN [res |-> "NotFound", lookedUp |-> FALSE]
    ELSE get_sym(slibs[get_lib(handle)], name)

\* PyCFuncPtr::from_dll with an object whose _handle is an int
FromDll(handle, func_name) ==
    /\ ~panicked
    /\ LET r == dlsym(handle, func_name)
           fn_ptr == [lib |-> get_lib(handle), name |-> func_name]
       IN /\ last' = [Last0 EXCEPT !.op = "from_dll", !.lib = get_lib(handle),
                                   !.name = func_name, !.res = r.res,
                                   !.lookedUp = r.lookedUp,
                                   !.wasOpen = (get_lib(handle) # NoLib
                                                /\ slibs[get_lib(handle)].lib = "Some"),
                                   !.again = (<<get_lib(handle), func_name>> \in lookups)]
          /\ lookups' = Found(lookups, get_lib(handle), func_name, r)
          /\ fptr' = IF r.res = "ok"
                     THEN [made |-> TRUE, _name_ |-> func_name, _argtypes_ |-> <<>>,
                           _restype_ |-> "None", _handle |-> handle,
                           _f |-> FunctionNew(fn_ptr, <<>>, "i")]
                     ELSE fptr
    /\ UNCHANGED <<pc, slibs, libraries, held, ef_libraries, ef_functions, lookup, arr, panicked>>

\* PyCFuncPtr::set_argtypes. vm.isinstance(..).is_ok() and the Ok(_) arm accept
\* every object; an item without _type_ panics in unwrap.
SetArgtypes(isSeq, items) ==
    /\ ~panicked
    /\ fptr.made
    /\ UNCHANGED <<pc, slibs, libraries, held, ef_libraries, ef_functions, lookup, lookups, arr>>
    /\ IF ~isSeq
       THEN \* vm.extract_elements(&argtypes)? fails on a non-iterable
            /\ last' = [Last0 EXCEPT !.op = "set_argtypes", !.decl = items, !.res = "TypeError"]
            /\ UNCHANGED <<fptr, panicked>>
       ELSE IF \E i \in 1..Len(items) : ~items[i].has_type
       THEN /\ last' = [Last0 EXCEPT !.op = "set_argtypes", !.decl = items, !.res = "panic"]
            /\ panicked' = TRUE
            /\ UNCHANGED fptr
       ELSE LET c_args == [i \in 1..Len(items) |-> items[i]._type_]
            IN /\ fptr' = [fptr EXCEPT !._argtypes_ = c_args,
                                       !._f = set_args(fptr._f, c_args)]
               /\ panicked' = (FirstUnknown(c_args) # 0)
               /\ last' = [Last0 EXCEPT !.op = "set_argtypes", !.decl = items,
                               !.res = IF FirstUnknown(c_args) # 0 THEN "panic" ELSE "ok"]

\* PyCFuncPtr::set_restype
SetRestype(restype) ==
    /\ ~panicked
    /\ fptr.made
    /\ UNCHANGED <<pc, slibs, libraries, held, ef_libraries, ef_functions, lookup, lookups, arr>>
    /\ IF ~restype.has_type
       THEN /\ last' = [Last0 EXCEPT !.op = "set_restype", !.decl = <<restype>>, !.res = "AttributeError"]
            /\ UNCHANGED <<fptr, panicked>>
       ELSE /\ fptr' = [fptr EXCEPT !._restype_ = restype._type_,
                                    !._f = set_ret(fptr._f, restype._type_)]
            /\ panicked' = (str_to_type(restype._type_) = Unreachable)
            /\ last' = [Last0 EXCEPT !.op = "set_restype", !.decl = <<restype>>,
                            !.res = IF str_to_type(restype._type_) = Unreachable
                                    THEN "panic" ELSE "ok"]

\* the cells py_to_ffi yields for the zipped (argument, type) pairs
Marshal(f, vals) ==
    [i \in 1..(IF Len(vals) < Len(f.arguments) THEN Len(vals) ELSE Len(f.arguments))
        |-> py_to_ffi(f.arguments[i], vals[i])]

\* the first position whose marshaling did not succeed (0: none)
FirstFailure(m) ==
    IF \E i \in 1..Len(m) : m[i].res # "ok"
    THEN CHOOSE i \in 1..Len(m) :
            /\ m[i].res # "ok"
            /\ \A j \in 1..(i - 1) : m[j].res = "ok"
    ELSE 0

\* whether Function::call reaches ffi_call once every argument is marshaled:
\* every arm of the return-type match calls, except void
CallsNative(f, m) == FirstFailure(m) = 0 /\ f.return_type # "ffi_type_void"

\* the return-type match of Function::call: the Rust type the result of
\* ffi_call is read as and boxed from, by the libffi type of the declared
\* return type; the void arm boxes nothing and yields None
ReturnRead(rtype) ==
    CASE rtype = "ffi_type_sint8"      -> [kind |-> "int", width |-> size_of("c_schar")]
      [] rtype = "ffi_type_sint32"     -> [kind |-> "int", width |-> size_of("c_int")]
      [] rtype = "ffi_type_sint16"     -> [kind |-> "int", width |-> size_of("c_short")]
      [] rtype = "ffi_type_uint16"     -> [kind |-> "int", width |-> size_of("c_ushort")]
      [] rtype = "ffi_type_uint32"     -> [kind |-> "int", width |-> size_of("c_uint")]
      [] rtype = "ffi_type_sint64"     -> [kind |-> "int", width |-> size_of("c_long")]
      [] rtype = "ffi_type_uint64"     -> [kind |-> "int", width |-> size_of("c_ulong")]
      [] rtype = "ffi_type_float"      -> [kind |-> "float", width |-> size_of("c_float")]
      [] rtype \in {"ffi_type_double", "ffi_type_longdouble"}
                                       -> [kind |-> "float", width |-> size_of("c_double")]
      [] rtype = "ffi_type_uint8"      -> [kind |-> "int", width |-> size_of("c_uchar")]
      [] rtype = "ffi_type_pointer"    -> [kind |-> "int", width |-> size_of("usize")]
      [] rtype = "ffi_type_void"       -> [kind |-> "None", width |-> 0]

\* Function::call: prep_cif, marshal, then the native call by return type
FunctionCall(f, vals) ==
    LET f1 == [f EXCEPT !.cif = prep_cif(f)]
        m == Marshal(f1, vals)
        bad == FirstFailure(m)
    IN [f |-> f1,
        res |-> IF bad # 0 THEN (IF m[bad].res = "panic" THEN "panic" ELSE "ConversionError")
                ELSE IF f1.return_type = "ffi_type_void" THEN "None" ELSE "value",
        failed |-> bad,
        called |-> CallsNative(f1, m),
        boxed |-> IF bad # 0 THEN NoBox ELSE ReturnRead(f1.return_type),
        rebuilt |-> (f.cif.prepared /\ f.cif # f1.cif),
        cells |-> [i \in 1..Len(m) |-> m[i].cell]]

\* ffi_call(cif_ptr, fun_ptr, arg_pointers): what the native side is given,
\* and whether the library the target was resolved from is still loaded
NativeCall(f, cells) ==
    [ptr |-> f.pointer, cif |-> f.cif, cells |-> cells,
     libOpen |-> slibs[f.pointer.lib].lib = "Some"]

\* what a cell's address holds when it is not the storage of the argument
Clobbered == [t |-> "junk", n |-> 0]

\* what ffi_call can read through a cell. The integer and float arms of
\* py_to_ffi return the address of a temporary of py_to_ffi's own frame, dead
\* when the call is made; the pointer arm returns the argument itself as the
\* address to read the pointer from. Either holds the argument or anything
\* else. Nothing is read through the null cell of a void type.
CellReads(c) == IF c.kind = "null" THEN {c.v} ELSE {c.v, Clobbered}

NativeReads(cells) ==
    {s \in [1..Len(cells) -> {Clobbered} \cup {cells[i].v : i \in 1..Len(cells)}] :
        \A i \in 1..Len(cells) : s[i] \in CellReads(cells[i])}

\* an arity check that rejects only too few arguments
ArityMismatch_TooFew(args, inner_args) == Len(args) < Len(inner_args)

\* whether Callable::call rejects the argument list for its length
ArityMismatch(args, inner_args) == Len(args) # Len(inner_args)

\* Callable::call of PyCFuncPtr
Call(args) ==
    /\ ~panicked
    /\ fptr.made
    /\ UNCHANGED <<pc, slibs, libraries, held, ef_libraries, ef_functions, lookup, lookups, arr>>
    /\ LET inner_args == fptr._argtypes_
           base == [Last0 EXCEPT !.op = "call", !.nargs = Len(args),
                                 !.ntypes = Len(inner_args)]
       IN IF ArityMismatch(args, inner_args)
          THEN /\ last' = [base EXCEPT !.res = "ArityMismatch"]
               /\ UNCHANGED <<fptr, panicked>>
          ELSE IF \E i \in 1..Len(args) : ~args[i].hasValue
          THEN \* vm.get_attribute(obj, "value")? fails
               /\ last' = [base EXCEPT !.res = "AttributeError"]
               /\ UNCHANGED <<fptr, panicked>>
          ELSE LET r == FunctionCall(fptr._f, [i \in 1..Len(args) |-> args[i].value])
               IN /\ fptr' = [fptr EXCEPT !._f = r.f]
                  /\ panicked' = (r.res = "panic")
                  /\ \E seen \in (IF r.called THEN NativeReads(r.cells) ELSE {<<>>}) :
                      last' = [base EXCEPT !.res = r.res, !.failed = r.failed,
                                          !.vals = [i \in 1..Len(args) |-> args[i].value],
                                          !.called = r.called, !.rebuilt = r.rebuilt,
                                          !.boxed = r.boxed, !.seen = seen,
                                          !.native = IF r.called
                                                     THEN NativeCall(r.f, r.cells)
                                                     ELSE NoNative]

\* set_argtypes up to self._argtypes_.store(c_args): the checks, the _type_
\* of every item, and the store; _f is not locked yet
ArgtypesStore(isSeq, items) ==
    /\ ~panicked
    /\ fptr.made
    /\ pc.set.at = "idle"
    /\ UNCHANGED <<slibs, libraries, held, ef_libraries, ef_functions, lookup, lookups, arr>>
    /\ IF ~isSeq
       THEN /\ last' = [Last0 EXCEPT !.op = "set_argtypes", !.res = "TypeError"]
            /\ UNCHANGED <<fptr, panicked, pc>>
       ELSE IF \E i \in 1..Len(items) : ~items[i].has_type
       THEN /\ last' = [Last0 EXCEPT !.op = "set_argtypes", !.res = "panic"]
            /\ panicked' = TRUE
            /\ UNCHANGED <<fptr, pc>>
       ELSE LET c_args == [i \in 1..Len(items) |-> items[i]._type_]
            IN /\ fptr' = [fptr EXCEPT !._argtypes_ = c_args]
               /\ pc' = [pc EXCEPT !.set = [at |-> "stored", c_args |-> c_args]]
               /\ UNCHANGED <<last, panicked>>

\* set_argtypes from self._f.write() on: set_args under the write lock
ArgtypesSetArgs ==
    /\ ~panicked
    /\ pc.set.at = "stored"
    /\ UNCHANGED <<slibs, libraries, held, ef_libraries, ef_functions, lookup, lookups, arr>>
    /\ fptr' = [fptr EXCEPT !._f = set_args(fptr._f, pc.set.c_args)]
    /\ panicked' = (FirstUnknown(pc.set.c_args) # 0)
    /\ last' = [Last0 EXCEPT !.op = "set_argtypes",
                    !.res = IF FirstUnknown(pc.set.c_args) # 0 THEN "panic" ELSE "ok"]
    /\ pc' = [pc EXCEPT !.set = NoStore]

\* Callable::call up to the write lock: _argtypes_ read through as_ptr, the
\* arity check against it, and the `value` of every argument
CallCheck(args) ==
    /\ ~panicked
    /\ fptr.made
    /\ pc.call.at = "idle"
    /\ UNCHANGED <<slibs, libraries, held, ef_libraries, ef_functions, lookup, lookups, arr,
                   fptr, panicked>>
    /\ LET inner_args == fptr._argtypes_
           base == [Last0 EXCEPT !.op = "call", !.nargs = Len(args),
                                 !.ntypes = Len(inner_args)]
       IN IF ArityMismatch(args, inner_args)
          THEN /\ last' = [base EXCEPT !.res = "ArityMismatch"]
               /\ UNCHANGED pc
          ELSE IF \E i \in 1..Len(args) : ~args[i].hasValue
          THEN /\ last' = [base EXCEPT !.res = "AttributeError"]
               /\ UNCHANGED pc
          ELSE /\ pc' = [pc EXCEPT !.call =
                            [at |-> "collected", ntypes |-> Len(inner_args),
                             vals |-> [i \in 1..Len(args) |-> args[i].value]]]
               /\ UNCHANGED last

\* Callable::call from zelf._f.write() on: Function::call under the write
\* lock, with the values collected before
CallLocked ==
    /\ ~panicked
    /\ pc.call.at = "collected"
    /\ UNCHANGED <<slibs, libraries, held, ef_libraries, ef_functions, lookup, lookups, arr>>
    /\ LET r == FunctionCall(fptr._f, pc.call.vals)
           base == [Last0 EXCEPT !.op = "call", !.nargs = Len(pc.call.vals),
                                 !.ntypes = pc.call.ntypes]
       IN /\ fptr' = [fptr EXCEPT !._f = r.f]
          /\ panicked' = (r.res = "panic")
          /\ \E seen \in (IF r.called THEN NativeReads(r.cells) ELSE {<<>>}) :
              last' = [base EXCEPT !.res = r.res, !.failed = r.failed,
                                  !.vals = pc.call.vals,
                                  !.called = r.called, !.rebuilt = r.rebuilt,
                                  !.boxed = r.boxed, !.seen = seen,
                                  !.native = IF r.called THEN NativeCall(r.f, r.cells)
                                             ELSE NoNative]
    /\ pc' = [pc EXCEPT !.call = NoPend]

-----------------------------------------------------------------------------
(* array.rs: PyCArray and its _buffer *)

UsizeRange == 2 ^ UsizeBits   \* usize::MAX + 1

Byte == {0, 1}      \* byte values: zero and a non-zero one
WChar == {1}        \* characters of the texts written

\* a region of n bytes as another owner of the memory, or nobody, left it
Junk(n) == {[i \in 1..n |-> b] : b \in Byte}

NoArr == [made |-> FALSE, _type_ |-> "", _length_ |-> 0, size |-> 0, owned |-> 0,
          bytes |-> <<>>, text |-> NoText]

\* the _length_ attributes array classes declare
Lengths == {0 - 1} \cup (0..MaxLen)
           \cup {2 ^ (UsizeBits - 2), 2 ^ (UsizeBits - 1), 2 ^ UsizeBits}
IntLen(n) == [kind |-> "int", n |-> n]
LenObjs == {IntLen(n) : n \in Lengths} \cup {[kind |-> "str", n |-> 0], NoLen}

\* element codes of the array classes ("x" is outside the alphabet)
ElemCodes == {"c", "u", "h", "z", "x"}

\* an array class: its _length_; whether it has a _type_; whether the class of
\* that type's _type_ passes the issubclass test; whether that _type_ is an
\* exact str; and the code the str spells
ArrayClass(len, has, storage, str, code) ==
    [_length_ |-> len, has_type |-> has, storage |-> storage, is_str |-> str,
     code |-> code]
ArrayClasses ==
    {ArrayClass(l, TRUE, TRUE, TRUE, c) : l \in LenObjs, c \in ElemCodes}
    \cup {ArrayClass(IntLen(1), FALSE, FALSE, FALSE, ""),
          ArrayClass(IntLen(1), TRUE, FALSE, TRUE, "c"),
          ArrayClass(IntLen(1), TRUE, TRUE, FALSE, "c")}

\* the Buffer view of a PyCArray: the bytes at RawBuffer.inner, and
\* get_options().len, which is RawBuffer.size
obj_bytes(a) == a.bytes
buffer_len(a) == a.size

\* PyCArray::tp_new, the match on _length_: how it ends
tp_new_length(len) ==
    CASE len.kind = "missing" -> "AttributeError"
      [] len.kind # "int" /\ len.kind # "missing" -> "TypeError"
      [] len.kind = "int" /\ len.n < 0 -> "ValueError"
      [] len.kind = "int" /\ len.n >= UsizeRange -> "OverflowError"
      [] OTHER -> "ok"

\* make_array_with_lenght. The RawBuffer keeps the pointer of a Vec that was
\* only given capacity and is dropped at the end of the statement: the array
\* owns none of the size bytes it records, and they hold what the region
\* happens to hold. length * itemsize is an unchecked usize product: with
\* overflow checks it panics, without them it wraps.
make_array_with_lenght(cls, length) ==
    LET base == [Last0 EXCEPT !.op = "tp_new", !.len = cls._length_, !.code = cls.code]
    IN IF ~cls.has_type
       THEN /\ last' = [base EXCEPT !.res = "AttributeError"]
            /\ UNCHANGED <<arr, panicked>>
       ELSE IF ~cls.storage
       THEN /\ last' = [base EXCEPT !.res = "TypeError"]
            /\ UNCHANGED <<arr, panicked>>
       ELSE IF ~cls.is_str \/ os_match_type(cls.code) = Unreachable
       THEN \* downcast_exact::<PyStr>().unwrap(), or unreachable!() in get_size
            /\ last' = [base EXCEPT !.res = "panic"]
            /\ panicked' = TRUE
            /\ UNCHANGED arr
       ELSE LET itemsize == get_size(cls.code)
                product == length * itemsize
            IN /\ (product >= UsizeRange \/ product <= MaxBytes)
               /\ \E overflow_checks \in BOOLEAN :
                    IF product >= UsizeRange /\ overflow_checks
                    THEN /\ last' = [base EXCEPT !.res = "panic"]
                         /\ panicked' = TRUE
                         /\ UNCHANGED arr
                    ELSE \E junk \in Junk(product % UsizeRange) :
                         /\ arr' = [made |-> TRUE, _type_ |-> cls.code,
                                    _length_ |-> length,
                                    size |-> product % UsizeRange, owned |-> 0,
                                    bytes |-> junk, text |-> NoText]
                         /\ last' = [base EXCEPT !.res = "ok", !.made = TRUE]
                         /\ UNCHANGED panicked

ArrVars == <<pc, slibs, libraries, held, ef_libraries, ef_functions, fptr, lookup, lookups>>

\* PyCArray::tp_new
TpNew(cls) ==
    /\ ~panicked
    /\ UNCHANGED ArrVars
    /\ IF tp_new_length(cls._length_) # "ok"
       THEN /\ last' = [Last0 EXCEPT !.op = "tp_new", !.len = cls._length_,
                                     !.code = cls.code,
                                     !.res = tp_new_length(cls._length_)]
            /\ UNCHANGED <<arr, panicked>>
       ELSE make_array_with_lenght(cls, cls._length_.n)

\* the memory the buffer points into is handed to another owner, which
\* fills it
Reuse(b) ==
    /\ ~panicked
    /\ arr.made /\ arr.size > arr.owned
    /\ arr' = [arr EXCEPT !.bytes = [i \in 1..arr.size |-> b]]
    /\ arr'.bytes # arr.bytes
    /\ UNCHANGED <<ArrVars, last, panicked>>

\* bytes[0..len(src)].copy_from_slice(src), for a src that fits
Overwrite(bytes, src) ==
    [i \in 1..Len(bytes) |-> IF i <= Len(src) THEN src[i] ELSE bytes[i]]

\* PyCArray::raw
Raw ==
    /\ ~panicked
    /\ arr.made
    /\ last' = [Last0 EXCEPT !.op = "raw", !.res = "ok", !.before = obj_bytes(arr),
                             !.out = obj_bytes(arr)]
    /\ UNCHANGED <<ArrVars, arr, panicked>>

\* a length check that lets a source one byte too long through
RawTooLong_OffByOne(new_size, my_size) == new_size > my_size + 1

\* set_raw's length check: new_size > my_size
RawTooLong(new_size, my_size) == new_size > my_size

\* PyCArray::set_raw with a bytes-like value
SetRaw(src) ==
    /\ ~panicked
    /\ arr.made
    /\ LET my_size == buffer_len(arr)
           new_size == Len(src)
           base == [Last0 EXCEPT !.op = "set_raw", !.kind = "bytes", !.src = src,
                                 !.before = obj_bytes(arr)]
       IN IF RawTooLong(new_size, my_size)
          THEN /\ last' = [base EXCEPT !.res = "ValueTooLong"]
               /\ UNCHANGED arr
          ELSE /\ arr' = [arr EXCEPT !.bytes = Overwrite(obj_bytes(arr), src),
                                     !.text = NoText]
               /\ last' = [base EXCEPT !.res = "ok"]
    /\ UNCHANGED <<ArrVars, panicked>>

\* u32::to_ne_bytes on a little-endian machine
to_ne_bytes(u) ==
    <<u % 256, (u \div 256) % 256, (u \div 65536) % 256, (u \div 16777216) % 256>>

\* u32::from_ne_bytes of the k-th 4-byte chunk
from_ne_bytes(bytes, k) ==
    bytes[4 * k - 3] + 256 * bytes[4 * k - 2] + 65536 * bytes[4 * k - 1]
        + 16777216 * bytes[4 * k]

\* the bytes of a sequence of u32 units
FlattenUnits(units) ==
    [i \in 1..(4 * Len(units)) |-> to_ne_bytes(units[((i - 1) \div 4) + 1])[((i - 1) % 4) + 1]]

\* WideCString::from_str_with_nul_unchecked(text): the last character stands
\* where the terminator is taken to be; len() and into_vec() leave it out
wide_len(chars) == Len(chars) - 1
into_vec(chars) == SubSeq(chars, 1, Len(chars) - 1)

\* the values handed to the `value` setter
Values ==
    {[t |-> "bytes", units |-> u] : u \in SeqsUpTo(Byte, MaxSrc)}
    \cup {[t |-> "str", units |-> u] : u \in SeqsUpTo(WChar, MaxSrc) \ {<<>>}}

\* PyCArray::set_value
SetValue(value) ==
    /\ ~panicked
    /\ arr.made
    /\ UNCHANGED ArrVars
    /\ LET my_size == buffer_len(arr)
           bytes == obj_bytes(arr)
           base == [Last0 EXCEPT !.op = "set_value", !.kind = value.t,
                                 !.src = value.units, !.before = bytes]
       IN IF arr._type_ = "c"
          THEN IF value.t # "bytes"
               THEN /\ last' = [base EXCEPT !.res = "ValueError"]
                    /\ UNCHANGED <<arr, panicked>>
               ELSE IF Len(value.units) > my_size
               THEN /\ last' = [base EXCEPT !.res = "ValueTooLong"]
                    /\ UNCHANGED <<arr, panicked>>
               ELSE IF Len(value.units) < my_size
               THEN \* bytes[my_size] = 0: the index is one past the slice
                    /\ arr' = [arr EXCEPT !.bytes = Overwrite(bytes, value.units),
                                          !.text = NoText]
                    /\ last' = [base EXCEPT !.res = "panic"]
                    /\ panicked' = TRUE
               ELSE /\ arr' = [arr EXCEPT !.bytes = Overwrite(bytes, value.units),
                                          !.text = [set |-> TRUE, units |-> value.units]]
                    /\ last' = [base EXCEPT !.res = "ok"]
                    /\ UNCHANGED panicked
          ELSE IF value.t # "str"
               THEN /\ last' = [base EXCEPT !.res = "ValueError"]
                    /\ UNCHANGED <<arr, panicked>>
               ELSE LET res == FlattenUnits(into_vec(value.units))
                    IN IF wide_len(value.units) > my_size
                       THEN /\ last' = [base EXCEPT !.res = "ValueTooLong"]
                            /\ UNCHANGED <<arr, panicked>>
                       ELSE IF wide_len(value.units) # Len(res)
                       THEN \* copy_from_slice: the two slices differ in length
                            /\ last' = [base EXCEPT !.res = "panic"]
                            /\ panicked' = TRUE
                            /\ UNCHANGED arr
                       ELSE /\ arr' = [arr EXCEPT !.bytes = Overwrite(bytes, res),
                                                  !.text = [set |-> TRUE,
                                                            units |-> value.units]]
                            /\ last' = [base EXCEPT !.res = "ok"]
                            /\ UNCHANGED panicked

\* PyCArray::value
Value ==
    /\ ~panicked
    /\ arr.made
    /\ UNCHANGED <<ArrVars, arr>>
    /\ LET bytes == obj_bytes(arr)
           n == Len(bytes)
           base == [Last0 EXCEPT !.op = "value", !.before = bytes, !.text = arr.text]
       IN IF arr._type_ = "u"
          THEN IF n % 4 # 0 \/ n = 0
               THEN \* try_into().unwrap() on a short chunk, or the length of
                    \* an empty unit vector minus its terminator
                    /\ last' = [base EXCEPT !.res = "panic"]
                    /\ panicked' = TRUE
               ELSE \* from_vec_with_nul_unchecked(units).to_string(): every
                    \* unit but the last
                    /\ last' = [base EXCEPT !.res = "ok", !.kind = "str",
                                    !.out = [k \in 1..((n \div 4) - 1)
                                                |-> from_ne_bytes(bytes, k)]]
                    /\ UNCHANGED panicked
          ELSE \* split_last: drop one trailing zero byte, if there is one
               /\ last' = [base EXCEPT !.res = "ok", !.kind = "bytes",
                               !.out = IF n > 0 /\ bytes[n] = 0
                                       THEN SubSeq(bytes, 1, n - 1) ELSE bytes]
               /\ UNCHANGED panicked

-----------------------------------------------------------------------------
(* The type-code tables as operations *)

LibVars == <<pc, slibs, libraries, held, ef_libraries, ef_functions, fptr, lookups, arr, last>>

\* a caller of common.rs convert_type
ConvertType(ty) ==
    /\ ~panicked
    /\ lookup' = [lookup EXCEPT !.convert_type =
                      [ty |-> ty, st |-> "ok", type |-> convert_type(ty), size |-> 0]]
    /\ UNCHANGED <<LibVars, panicked>>

\* a caller of function.rs str_to_type
StrToType(ty) ==
    /\ ~panicked
    /\ lookup' = [lookup EXCEPT !.str_to_type =
                      IF str_to_type(ty) = Unreachable
                      THEN [ty |-> ty, st |-> "panic", type |-> "", size |-> 0]
                      ELSE [ty |-> ty, st |-> "ok", type |-> str_to_type(ty), size |-> 0]]
    /\ panicked' = (str_to_type(ty) = Unreachable)
    /\ UNCHANGED LibVars

\* a caller of array.rs get_size
GetSize(ty) ==
    /\ ~panicked
    /\ lookup' = [lookup EXCEPT !.get_size =
                      IF os_match_type(ty) = Unreachable
                      THEN [ty |-> ty, st |-> "panic", type |-> "", size |-> 0]
                      ELSE [ty |-> ty, st |-> "ok", type |-> "", size |-> get_size(ty)]]
    /\ panicked' = (os_match_type(ty) = Unreachable)
    /\ UNCHANGED LibVars

-----------------------------------------------------------------------------
NoFn == [made |-> FALSE]

Init ==
    /\ slibs = [a \in Addr |-> NoObj]
    /\ libraries = [a \in Addr |-> NoLib]
    /\ held = [t \in Threads |-> NoLib]
    /\ ef_libraries = [p \in Paths |-> 0]
    /\ ef_functions = {}
    /\ fptr = NoFn
    /\ lookup = [convert_type |-> NoLookup, str_to_type |-> NoLookup, get_size |-> NoLookup]
    /\ lookups = {}
    /\ arr = NoArr
    /\ last = Last0
    /\ panicked = FALSE
    /\ pc = Idle

Next ==
    \/ \E t \in Threads, p \in Paths : GetOrInsertLib(t, p, Addr)
    \/ \E t \in Threads, a \in Addr : Close(t, a)
    \/ \E t \in Threads, a \in Addr, n \in Names : GetSym(t, a, n)

\* the call dispatcher over one library path and one symbol
NextCall ==
    \/ GetOrInsertLib(1, "a", {1})
    \/ Close(1, 1)
    \/ FromDll(1, "c")
    \/ \E items \in SeqsUpTo(ArgItems, MaxArgs) : SetArgtypes(TRUE, items)
    \/ SetArgtypes(FALSE, <<>>)
    \/ \E r \in RetItems : SetRestype(r)
    \/ \E args \in SeqsUpTo(ArgObjs, MaxArgs) : Call(args)

SpecCall == Init /\ [][NextCall]_vars

\* return types of every code of the alphabet
AlphabetRetItems == {TypeObj(TRUE, TRUE, c) : c \in SIMPLE_TYPE_CHARS}

\* the return dispatch: one resolved function without arguments, its return
\* type redeclared over the alphabet
NextRet ==
    \/ GetOrInsertLib(1, "a", {1})
    \/ FromDll(1, "c")
    \/ \E r \in AlphabetRetItems : SetRestype(r)
    \/ Call(<<>>)

SpecRet == Init /\ [][NextRet]_vars

\* the library cache together with the module-level dlopen
NextLoad ==
    \/ \E t \in Threads, p \in Paths : GetOrInsertLib(t, p, Addr)
    \/ \E t \in Threads, a \in Addr : Close(t, a)
    \/ \E p \in Paths : Dlopen(p)

SpecLoad == Init /\ [][NextLoad]_vars

\* arrays: construction, the raw and value properties, and the memory the
\* buffer points into changing hands
NextArray ==
    \/ \E cls \in ArrayClasses : TpNew(cls)
    \/ \E src \in SeqsUpTo(Byte, MaxSrc) : SetRaw(src)
    \/ Raw
    \/ \E v \in Values : SetValue(v)
    \/ Value
    \/ \E b \in Byte : Reuse(b)

SpecArray == Init /\ [][NextArray]_vars

\* declarations with objects that are not simple types: a class that has a
\* _type_ without being one, and an object without _type_
DeclItems == {TypeObj(TRUE, TRUE, "b"), TypeObj(TRUE, TRUE, "z"),
              TypeObj(FALSE, TRUE, "b"), TypeObj(FALSE, FALSE, "")}

NextDecl ==
    \/ GetOrInsertLib(1, "a", {1})
    \/ FromDll(1, "c")
    \/ \E items \in SeqsUpTo(DeclItems, MaxArgs) : SetArgtypes(TRUE, items)
    \/ \E r \in DeclItems : SetRestype(r)
    \/ \E args \in SeqsUpTo({[hasValue |-> TRUE, value |-> IntV(100)]}, MaxArgs) : Call(args)

SpecDecl == Init /\ [][NextDecl]_vars

\* an invoke by one thread while another redeclares the argument types: both
\* handlers step by step
NextRace ==
    \/ GetOrInsertLib(1, "a", {1})
    \/ FromDll(1, "c")
    \/ \E items \in SeqsUpTo(ArgItems, MaxArgs) : ArgtypesStore(TRUE, items)
    \/ ArgtypesStore(FALSE, <<>>)
    \/ ArgtypesSetArgs
    \/ \E args \in SeqsUpTo(ArgObjs, MaxArgs) : CallCheck(args)
    \/ CallLocked

SpecRace == Init /\ [][NextRace]_vars

\* a symbol lookup by one thread, step by step, while another closes
NextSym ==
    \/ \E t \in Threads, p \in Paths : GetOrInsertLib(t, p, Addr)
    \/ \E t \in Threads, a \in Addr : Close(t, a)
    \/ \E a \in Addr, n \in Names : GetSymRef(a, n)
    \/ GetSymGet

SpecSym == Init /\ [][NextSym]_vars

\* integer marshaling: one argument of an integer code, given the values at
\* the edges of the native ranges
IntCodes == {"b", "B", "h", "H", "i", "I", "l", "L", "q", "Q"}

NextMarshal ==
    \/ GetOrInsertLib(1, "a", {1})
    \/ FromDll(1, "c")
    \/ \E c \in IntCodes : SetArgtypes(TRUE, <<TypeObj(TRUE, TRUE, c)>>)
    \/ \E v \in BigVals : Call(<<[hasValue |-> TRUE, value |-> v]>>)

SpecMarshal == Init /\ [][NextMarshal]_vars

\* the legacy caches of common.rs; the names make two (path, name) pairs
\* share the text of their key
EFNames == {"c", "b_c"}

NextEF ==
    \/ \E p \in Paths : EFGetOrInsertLib(p)
    \/ \E n \in EFNames, p \in Paths, l \in Addr :
            ef_libraries[p] # NoLib /\ l \in {ef_libraries[q] : q \in Paths}
                /\ EFGetOrInsertFn(n, p, l)

SpecEF == Init /\ [][NextEF]_vars

\* the type-code tables applied to the strings a declaration can carry
NextTypes ==
    \/ \E ty \in TypeStrings : ConvertType(ty)
    \/ \E ty \in TypeStrings : StrToType(ty)
    \/ \E ty \in TypeStrings : GetSize(ty)

SpecTypes == Init /\ [][NextTypes]_vars

Spec == Init /\ [][Next]_vars

-----------------------------------------------------------------------------
(* Properties *)

\* C1: an invoke whose argument count differs from the number of declared
\* argument types returns the arity error and performs no native call.
C1_ArityMismatchMakesNoCall ==
    (last.op = "call" /\ last.nargs # Len(fptr._argtypes_))
        => (last.res = "ArityMismatch" /\ ~last.called /\ last.native = NoNative)

\* an invoke with more arguments than the (non-empty) declared list was rejected
C1_Witness ==
    /\ last.op = "call" /\ last.res = "ArityMismatch"
    /\ Len(fptr._argtypes_) = 1 /\ last.nargs = 2

\* C2: an invoke in which the marshaling of an argument fails ends with an
\* error value, and the native call has not been performed.
C2_MarshalFailureReturnsError ==
    (last.op = "call" /\ last.failed # 0)
        => (last.res = "ConversionError" /\ ~last.called)

\* C3: every type-code lookup answers a string outside the alphabet with an
\* unknown-type-code error: no default type, no panic.
C3_UnknownCodeRejected ==
    /\ (lookup.convert_type.st # "none" /\ lookup.convert_type.ty \notin SIMPLE_TYPE_CHARS)
            => lookup.convert_type.st = "UnknownTypeCode"
    /\ (lookup.str_to_type.st # "none" /\ lookup.str_to_type.ty \notin SIMPLE_TYPE_CHARS)
            => lookup.str_to_type.st = "UnknownTypeCode"
    /\ (lookup.get_size.st # "none" /\ lookup.get_size.ty \notin SIMPLE_TYPE_CHARS)
            => lookup.get_size.st = "UnknownTypeCode"

\* C4: the cache holds at most one open library per path, and an open of a
\* path whose cached library is still open returns that instance without
\* loading the library again.
C4_OneOpenLibraryPerPath ==
    /\ \A p \in Paths : Cardinality(OpenCached(p)) <= 1
    /\ (last.op = "get_or_insert_lib" /\ last.hit # NoLib)
            => (last.res = "ok" /\ last.ret = last.hit /\ ~last.loaded)

\* C5: an open of a path after a library of that path was closed returns a
\* new, open instance, and the closed instance is no longer in the cache.
C5_ReopenReplacesClosed ==
    \A c \in Addr :
        (/\ last.op = "get_or_insert_lib" /\ last.res = "ok"
         /\ slibs[c].alloc /\ slibs[c].path_name = last.path /\ is_closed(slibs, c))
            => (/\ last.ret # c
                /\ ~is_closed(slibs, last.ret)
                /\ \A k \in Addr : libraries[k] # c)

\* C6: opens of one path by several threads, with no close of what they
\* returned, all return the same instance, and the cache holds exactly one
\* entry for the path.
C6_ConcurrentOpensConverge ==
    \A t1, t2 \in Threads :
        (/\ held[t1] # NoLib /\ held[t2] # NoLib
         /\ slibs[held[t1]].path_name = slibs[held[t2]].path_name
         /\ ~is_closed(slibs, held[t1]) /\ ~is_closed(slibs, held[t2]))
            => (/\ held[t1] = held[t2]
                /\ Cardinality({k \in Addr : /\ libraries[k] # NoLib
                                             /\ slibs[libraries[k]].path_name
                                                    = slibs[held[t1]].path_name}) = 1)

\* C7: a resolve on a library that has been closed fails with the
\* library-closed error and performs no native symbol lookup.
C7_ClosedLibraryResolveFails ==
    (last.op = "get_sym" /\ ~last.wasOpen)
        => (last.res = "LibraryClosed" /\ ~last.lookedUp)

\* a resolve of an exported name failed on a closed library while a newer
\* instance of the same path is open
C7_Witness ==
    /\ last.op = "get_sym" /\ ~last.wasOpen /\ last.name = "c"
    /\ last.res = "LibraryClosed"
    /\ \E a \in Addr : /\ a # last.lib /\ slibs[a].alloc
                       /\ slibs[a].path_name = last.path /\ ~is_closed(slibs, a)

\* C8: no native call is performed through a pointer resolved from a library
\* that has since been closed.
C8_NoCallThroughClosedLibrary ==
    (last.op = "call" /\ last.called) => last.native.libOpen

\* C9: while the library stays open, a resolve of a (library, name) pair that
\* was resolved before performs no further native lookup.
C9_ResolveIsMemoized ==
    (last.op = "get_sym" /\ last.wasOpen /\ last.again) => ~last.lookedUp

\* C10: the call interface an invoke builds and uses has exactly the most
\* recently declared argument types and return type.
C10_CallInterfaceIsCurrent ==
    (last.op = "call" /\ last.res \notin {"ArityMismatch", "AttributeError"})
        => (/\ fptr._f.cif.prepared
            /\ fptr._f.cif.nargs = Len(fptr._argtypes_)
            /\ fptr._f.cif.arg_types
                    = [i \in 1..Len(fptr._argtypes_) |-> str_to_type(fptr._argtypes_[i])]
            /\ (fptr._restype_ # "None"
                    => fptr._f.cif.rtype = str_to_type(fptr._restype_))
            /\ (last.called => last.native.cif = fptr._f.cif))

\* a native call went through an interface rebuilt after a redeclaration of
\* both the argument types and the return type
C10_Witness ==
    /\ last.op = "call" /\ last.called /\ last.rebuilt
    /\ Len(fptr._argtypes_) = 2 /\ fptr._restype_ = "b"

\* the native width, in bytes, the alphabet table gives a code on this
\* platform (int 4, long 8, long double 16, wchar_t 4, pointers 8)
NativeWidth(code) ==
    CASE code \in {"c", "b", "B", "?"} -> 1
      [] code \in {"h", "H"} -> 2
      [] code \in {"i", "I", "f", "u"} -> 4
      [] code \in {"l", "L", "q", "Q", "d", "z", "Z", "P"} -> 8
      [] code = "g" -> 16

\* C11: an invoke that passes the arity check and marshaling performs the
\* native call through the resolved pointer and returns a boxed value of the
\* width of the declared return code (pointer width for "P"); no code of the
\* alphabet makes it skip the call or return the no-value.
C11_ReturnDispatch ==
    (/\ last.op = "call" /\ last.res \in {"value", "None"}
     /\ fptr._restype_ \in SIMPLE_TYPE_CHARS)
        => (/\ last.called
            /\ last.native.ptr = fptr._f.pointer
            /\ last.boxed.kind \in {"int", "float"}
            /\ last.boxed.width = NativeWidth(fptr._restype_))

\* C12: for every code of the alphabet, the element size get_size reports is
\* the native width the alphabet table gives the code.
C12_SizeMatchesAlphabet ==
    (lookup.get_size.st = "ok" /\ lookup.get_size.ty \in SIMPLE_TYPE_CHARS)
        => lookup.get_size.size = NativeWidth(lookup.get_size.ty)

BadLength(len, code) ==
    \/ len.kind # "int"
    \/ len.n < 0
    \/ len.n >= UsizeRange
    \/ (os_match_type(code) # Unreachable /\ len.n * get_size(code) >= UsizeRange)

C15_RawTooLongRejected ==
    [][(last'.op = "set_raw" /\ last' # last /\ Len(last'.src) > arr.size)
            => (last'.res = "ValueTooLong" /\ arr' = arr)]_vars

\* a too-long `raw` write to a non-empty buffer was rejected and the buffer
\* holds what it held
C15_Witness ==
    /\ last.op = "set_raw" /\ last.res = "ValueTooLong"
    /\ arr.size > 0 /\ Len(last.src) > arr.size /\ arr.bytes = last.before

Enc(kind, units) == IF kind = "bytes" THEN units ELSE FlattenUnits(units)

\* a bytes value for a byte array, a text for a wide array
Matches(type, kind) ==
    (type = "c" /\ kind = "bytes") \/ (type = "u" /\ kind = "str")

\* C17: a `value` write whose encoding is shorter than the buffer succeeds
\* and leaves the buffer holding the encoding followed by zeros only; a
\* `value` read after it returns the text written.
C17_ShortValueZeroPads ==
    /\ (/\ last.op = "set_value" /\ Matches(arr._type_, last.kind)
        /\ Len(Enc(last.kind, last.src)) < arr.size)
            => (/\ last.res = "ok"
                /\ arr.bytes = [i \in 1..arr.size |->
                                   IF i <= Len(Enc(last.kind, last.src))
                                   THEN Enc(last.kind, last.src)[i] ELSE 0])
    /\ (/\ last.op = "value" /\ last.text.set
        /\ Len(Enc(last.kind, last.text.units)) < arr.size)
            => (last.res = "ok" /\ last.out = last.text.units)

\* C18: a `value` write is rejected as too long exactly when its encoding has
\* more bytes than the buffer; an encoding of exactly the buffer length is
\* accepted; a rejected write changes no byte.
C18_ValueTooLongExactly ==
    (last.op = "set_value" /\ Matches(arr._type_, last.kind))
        => (/\ (last.res = "ValueTooLong")
                    <=> (Len(Enc(last.kind, last.src)) > arr.size)
            /\ (Len(Enc(last.kind, last.src)) = arr.size => last.res = "ok")
            /\ (last.res = "ValueTooLong" => arr.bytes = last.before))

\* the code units of a buffer: bytes, or the 4-byte wide characters
UnitsOf(type, bytes) ==
    IF type = "u" THEN [k \in 1..(Len(bytes) \div 4) |-> from_ne_bytes(bytes, k)]
    ELSE bytes

\* the units before the first zero unit, or all of them
UpToZero(units) ==
    LET zeros == {i \in 1..Len(units) : units[i] = 0}
    IN IF zeros = {} THEN units
       ELSE SubSeq(units, 1, (CHOOSE i \in zeros : \A j \in zeros : i <= j) - 1)

\* C19: a `value` read of a character array returns the units before the
\* first zero unit (all units when none is zero); a `raw` read returns every
\* byte.
C19_ValueStopsAtFirstZero ==
    /\ (last.op = "value" /\ arr._type_ \in {"c", "u"})
            => (last.res = "ok" /\ last.out = UpToZero(UnitsOf(arr._type_, last.before)))
    /\ (last.op = "raw") => last.out = last.before

\* C20: an open of a path that cannot be loaded returns the load error (the
\* interpreter does not panic) and leaves the library cache as it was, also
\* when an open library of the path is cached.
C20_LoadFailureReturnsError ==
    [][(/\ last' # last
        /\ last'.op \in {"get_or_insert_lib", "dlopen"}
        /\ last'.res # "ok")
            => (/\ last'.res = "LoadError"
                /\ ~panicked'
                /\ libraries' = libraries
                /\ slibs' = slibs)]_vars

\* C21: a close of a closed library raises no error and changes nothing;
\* every close leaves the library closed; and the native handle is released
\* by the close that found the library open and by no other.
C21_CloseIsIdempotent ==
    [][(last'.op = "close" /\ last' # last)
            => (/\ last'.res = "ok"
                /\ is_closed(slibs', last'.lib)
                /\ last'.released <=> ~is_closed(slibs, last'.lib)
                /\ is_closed(slibs, last'.lib)
                        => (slibs' = slibs /\ libraries' = libraries))]_vars

\* a library that was already closed has been closed again
C21_Witness ==
    /\ last.op = "close" /\ ~last.wasOpen /\ last.res = "ok" /\ ~last.released
    /\ is_closed(slibs, last.lib)

\* the width in bits and the signedness the alphabet table gives an integer
\* code on this platform
CodeBits(code) ==
    CASE code \in {"b", "B"} -> 8
      [] code \in {"h", "H"} -> 16
      [] code \in {"i", "I"} -> 32
      [] code \in {"l", "L", "q", "Q"} -> 64
CodeSigned(code) == code \in {"b", "h", "i", "l", "q"}

\* whether an edge value is a value of the native type of an integer code
InCodeRange(code, v) ==
    IF CodeSigned(code)
    THEN IF v.less = v.neg THEN v.k < CodeBits(code) - 1 ELSE v.k <= CodeBits(code) - 1
    ELSE ~v.neg /\ (IF v.less THEN v.k <= CodeBits(code) ELSE v.k < CodeBits(code))

\* C22: an invoke whose integer argument does not fit the native type of its
\* declared code ends with the conversion error and makes no native call: the
\* value is not truncated or wrapped into a cell.
C22_IntegerOutOfRangeRejected ==
    (/\ last.op = "call" /\ Len(last.vals) = 1 /\ Len(fptr._argtypes_) = 1
     /\ fptr._argtypes_[1] \in IntCodes /\ last.vals[1].t = "big"
     /\ ~InCodeRange(fptr._argtypes_[1], last.vals[1]))
        => (/\ last.res = "ConversionError" /\ last.failed = 1
            /\ ~last.called /\ last.native = NoNative)

\* 128 was refused for a signed byte, and 2^64 for an unsigned long long
C22_Witness ==
    /\ last.op = "call" /\ last.res = "ConversionError" /\ Len(last.vals) = 1
    /\ \/ fptr._argtypes_ = <<"b">> /\ last.vals[1] = BigV(FALSE, 7, FALSE)
       \/ fptr._argtypes_ = <<"Q">> /\ last.vals[1] = BigV(FALSE, 64, FALSE)

\* C23: an invoke of a callable whose return type was never declared uses the
\* return type of the opaque-pointer code "P".
C23_UndeclaredReturnIsPointerCode ==
    (/\ last.op = "call" /\ last.res \in {"value", "None"}
     /\ fptr._restype_ = "None")
        => (/\ fptr._f.return_type = str_to_type("P")
            /\ fptr._f.cif.rtype = str_to_type("P"))

\* the libffi type the alphabet table gives a code on this platform: its
\* signedness and width (char and wchar_t are signed here)
AlphabetTag(code) ==
    CASE code \in {"c", "b"} -> "ffi_type_sint8"
      [] code \in {"B", "?"} -> "ffi_type_uint8"
      [] code = "h" -> "ffi_type_sint16"
      [] code = "H" -> "ffi_type_uint16"
      [] code \in {"i", "u"} -> "ffi_type_sint32"
      [] code = "I" -> "ffi_type_uint32"
      [] code \in {"l", "q"} -> "ffi_type_sint64"
      [] code \in {"L", "Q"} -> "ffi_type_uint64"
      [] code = "f" -> "ffi_type_float"
      [] code = "d" -> "ffi_type_double"
      [] code = "g" -> "ffi_type_longdouble"
      [] code \in {"z", "Z", "P"} -> "ffi_type_pointer"

\* C24: for every code of the alphabet, convert_type and str_to_type return
\* the native call type of the signedness and width the alphabet table gives
\* the code, and so the same type.
C24_TablesAgreeWithAlphabet ==
    /\ (lookup.convert_type.st = "ok" /\ lookup.convert_type.ty \in SIMPLE_TYPE_CHARS)
            => lookup.convert_type.type = AlphabetTag(lookup.convert_type.ty)
    /\ (lookup.str_to_type.st = "ok" /\ lookup.str_to_type.ty \in SIMPLE_TYPE_CHARS)
            => lookup.str_to_type.type = AlphabetTag(lookup.str_to_type.ty)
    /\ (/\ lookup.convert_type.st = "ok" /\ lookup.str_to_type.st = "ok"
        /\ lookup.convert_type.ty = lookup.str_to_type.ty
        /\ lookup.convert_type.ty \in SIMPLE_TYPE_CHARS)
            => lookup.convert_type.type = lookup.str_to_type.type

\* C25: whatever the interleaving of an invoke with a redeclaration of the
\* argument types, the native call is given as many cells as its call
\* interface has argument types, and that is the number of types the arity
\* check compared the arguments with.
C25_ArityListIsMarshalList ==
    (last.op = "call" /\ last.called)
        => (/\ Len(last.native.cells) = last.native.cif.nargs
            /\ last.ntypes = last.native.cif.nargs)

\* C26: whatever the interleaving of a symbol lookup with a close, the lookup
\* fails with library-closed or runs on a handle that is still held: the
\* native lookup never goes through a handle close has released.
C26_NoLookupAfterClose ==
    (last.op = "get_sym")
        => (/\ ~last.stale
            /\ last.lookedUp => last.wasOpen
            /\ ~last.lookedUp => last.res = "LibraryClosed")

\* C27: two resolutions in the symbol cache whose (library path, symbol name)
\* pairs differ get different entries, and the entry each one gets is bound to
\* the library passed with it.
C27_DistinctPairsDistinctEntries ==
    [][(/\ last.op = "ef_get_or_insert_fn" /\ last'.op = "ef_get_or_insert_fn"
        /\ <<last.path, last.name>> # <<last'.path, last'.name>>)
            => (/\ last'.proxy # last.proxy
                /\ last'.proxy._name # last.proxy._name
                /\ last.proxy._lib = last.lib => last'.proxy._lib = last'.lib)]_vars

\* C28: a declaration of argument types with an item that is not a simple
\* type, or of a return type that is not one, ends with a type error and
\* leaves the callable (argument types, return type, call interface) as it
\* was.
C28_BadDeclarationRejected ==
    [][(/\ last' # last
        /\ last'.op \in {"set_argtypes", "set_restype"}
        /\ \E i \in 1..Len(last'.decl) : ~last'.decl[i].simple)
            => (last'.res = "TypeError" /\ fptr' = fptr /\ ~panicked')]_vars

\* C29: a `value` or `raw` write never indexes the buffer at or beyond its
\* length, so it never aborts on an out-of-range index, and the buffer is as
\* long after the write as it was before.
C29_WritesStayInsideBuffer ==
    (last.op \in {"set_value", "set_raw"})
        => (/\ last.res # "panic" /\ ~panicked
            /\ Len(obj_bytes(arr)) = Len(last.before)
            /\ buffer_len(arr) = Len(last.before))

\* C30: in a successful invoke the native call is given one cell per
\* argument, in the order of the arguments, and through the i-th cell it is
\* given the i-th argument as a value of the i-th declared type.
C30_CellsAreArgumentsInOrder ==
    (last.op = "call" /\ last.called)
        => (/\ Len(last.native.cells) = Len(last.vals)
            /\ Len(last.seen) = Len(last.vals)
            /\ \A i \in 1..Len(last.vals) :
                /\ i <= Len(fptr._argtypes_)
                /\ last.native.cells[i].ty = str_to_type(fptr._argtypes_[i])
                /\ last.native.cells[i].v = last.vals[i]
                /\ last.seen[i] = last.vals[i])

====
